---- MODULE Spec2Model ----
(***************************************************************************)
(* Model of the "Get Device OS Version" job of the device lifecycle        *)
(* plugin (jobs/get_os_version.py): device selection and precondition      *)
(* validation (get_job_filter), the per-device pipeline run by the Nornir  *)
(* runner (create_software_to_device_rel: get_os_version,                  *)
(* get_or_create_software_obj, create_rel) and the job's run method.       *)
(* Every database query of the pipeline is one step, so that pipelines of  *)
(* several threads, and of several job runs, interleave between queries.   *)
(***************************************************************************)
EXTENDS Integers, FiniteSets, Sequences, TLC

\* Number of job runs a behaviour holds.
NumJobs == 2

Jobs == 1..NumJobs

NULL == "null"

(***************************************************************************)
(* The device store: a fixed fleet.  d1 and d2 are usable (platform and    *)
(* primary IP set, same platform); d3 and d5 have no platform; d4 and d5   *)
(* have no primary IP.                                                     *)
(***************************************************************************)
Devices == {"d1", "d2", "d3", "d4", "d5"}
Platforms == {"p1", "p2"}
Roles == {"r1", "r2"}
Tags == {"t1", "t2"}
Statuses == {"s1", "s2"}
\* Version strings a probe can observe.
Versions == {"v1", "v2"}

Fleet ==
  [d \in Devices |->
     CASE d = "d1" -> [name |-> "rtr1", platform |-> "p1", primary_ip4 |-> "10.0.0.1",
                       role |-> "r1", status |-> "s1", tags |-> {"t1", "t2"}]
       [] d = "d2" -> [name |-> "rtr2", platform |-> "p1", primary_ip4 |-> "10.0.0.2",
                       role |-> "r2", status |-> "s1", tags |-> {"t1"}]
       [] d = "d3" -> [name |-> "sw3", platform |-> NULL, primary_ip4 |-> "10.0.0.3",
                       role |-> "r1", status |-> "s2", tags |-> {"t2"}]
       [] d = "d4" -> [name |-> "sw4", platform |-> "p2", primary_ip4 |-> NULL,
                       role |-> "r2", status |-> "s2", tags |-> {}]
       [] OTHER    -> [name |-> "sw5", platform |-> NULL, primary_ip4 |-> NULL,
                       role |-> "r1", status |-> "s1", tags |-> {"t1"}]]

\* Tag.name and Status.name, the values the label criteria are translated to.
TagName == [t \in Tags |-> IF t = "t1" THEN "core" ELSE "edge"]
StatusName == [s \in Statuses |-> IF s = "s1" THEN "Active" ELSE "Planned"]
\* str(device.pk)
PkStr == [d \in Devices |-> "uuid-" \o d]

(***************************************************************************)
(* get_job_filter: the form data, the query built from it, the device      *)
(* filter set and the two precondition checks.                             *)
(***************************************************************************)
\* data["device"]: a single Device instance (one = TRUE) or a queryset.
DeviceCrit ==
  {[one |-> TRUE, ds |-> {d}] : d \in Devices}
    \cup {[one |-> FALSE, ds |-> S] : S \in SUBSET Devices}

\* The form data: every criterion is optional, an empty queryset is falsy.
Criteria ==
  [platform : SUBSET Platforms, role : SUBSET Roles, tags : SUBSET Tags,
   status : SUBSET Statuses, device : DeviceCrit]

\* Mutant of FIELDS_PK: the role criterion is left out.
FIELDS_PK_NoRole == {"platform"}

FIELDS_PK == {"platform", "role"}

FIELDS_NAME == {"tags", "status"}

\* data[field].values_list("pk", flat=True)
ValuesListPk(qs) == qs

\* data[field].values_list("name", flat=True)
ValuesListName(field, qs) ==
  IF field = "tags" THEN {TagName[t] : t \in qs} ELSE {StatusName[s] : s \in qs}

\* The query dictionary get_job_filter builds: one key per supplied criterion.
BuildQuery(data) ==
  LET pkKeys == {f \in FIELDS_PK : data[f] # {}}
      nameKeys == {f \in FIELDS_NAME : data[f] # {}}
      idKeys == IF data.device.ds # {} THEN {"id"} ELSE {}
  IN [k \in pkKeys \cup nameKeys \cup idKeys |->
        IF k \in pkKeys THEN ValuesListPk(data[k])
        ELSE IF k \in nameKeys THEN ValuesListName(k, data[k])
        ELSE IF data.device.one
             THEN {PkStr[d] : d \in data.device.ds}
             ELSE ValuesListPk(data.device.ds)]

\* Whether device d passes the filter of one query key.  The tags filter of the
\* device filter set is conjoined: a device must carry every named tag.
FilterMatches(d, key, vals) ==
  CASE key = "platform" -> Fleet[d].platform \in vals
    [] key = "role" -> Fleet[d].role \in vals
    [] key = "status" -> StatusName[Fleet[d].status] \in vals
    [] key = "tags" -> \A n \in vals : \E t \in Fleet[d].tags : TagName[t] = n
    [] OTHER -> d \in vals \/ PkStr[d] \in vals

\* DeviceFilterSet(data=query).qs
DeviceFilterSet(query) ==
  {d \in Devices : \A k \in DOMAIN query : FilterMatches(d, k, query[k])}

\* Mutant of DevicesNoPlatform: the platform check finds nothing.
DevicesNoPlatform_None(qs) == {d \in qs : Fleet[d].platform = NULL /\ d \notin qs}

\* devices_filtered.qs.filter(platform__isnull=True)
DevicesNoPlatform(qs) == {d \in qs : Fleet[d].platform = NULL}

\* devices_filtered.qs.filter(primary_ip4__isnull=True)
DevicesNoPrimaryIp(qs) == {d \in qs : Fleet[d].primary_ip4 = NULL}

\* Mutant of JoinNames: only the first offender is named.
JoinNames_First(ds) == IF ds = {} THEN {} ELSE {Fleet[CHOOSE d \in ds : TRUE].name}

\* ', '.join([device.name for device in ...]): the names the message holds.
JoinNames(ds) == {Fleet[d].name : d \in ds}

\* The outcome of get_job_filter(data): the queryset, or the exception raised.
get_job_filter(data) ==
  LET qs == DeviceFilterSet(BuildQuery(data))
      noPlatform == DevicesNoPlatform(qs)
      noIp == DevicesNoPrimaryIp(qs)
  IN IF noPlatform # {}
     THEN [raised |-> TRUE, code |-> "E3017", names |-> JoinNames(noPlatform), qs |-> qs]
     ELSE IF noIp # {}
     THEN [raised |-> TRUE, code |-> "no_primary_ip", names |-> JoinNames(noIp), qs |-> qs]
     ELSE [raised |-> FALSE, code |-> NULL, names |-> {}, qs |-> qs]


(***************************************************************************)
(* State.                                                                  *)
(*   software  SoftwareLCM rows [id, version, device_platform]             *)
(*   assocs    RelationshipAssociation rows of the "device_soft"           *)
(*             relationship [id, source, destination]                      *)
(*   job       per job run: where run() is, the exception it raised and    *)
(*             whether the caller has signalled cancellation               *)
(*   task      per job run and host: the position of                       *)
(*             create_software_to_device_rel and its locals                *)
(*   fdata, fres   the argument and the result of a get_job_filter call    *)
(* A row's id is the (job, device) of the task that inserted it: a task    *)
(* inserts at most one row of each table.                                  *)
(***************************************************************************)
VARIABLES software, assocs, job, task, fdata, fres

vars == <<software, assocs, job, task, fdata, fres>>

\* The id of no row.
NoId == <<0, NULL>>

NoTask ==
  [pc |-> "none", os_version |-> NULL, sw |-> NoId, created |-> FALSE, missed |-> FALSE,
   log |-> {}, outcome |-> NULL, failed |-> FALSE, deleted |-> FALSE,
   pre |-> {}, post |-> {}]

\* The selections the job runs draw their form data from: a device multi-select.
JobCriteria ==
  {[platform |-> {}, role |-> {}, tags |-> {}, status |-> {},
    device |-> [one |-> FALSE, ds |-> S]] : S \in SUBSET Devices}

\* No form data: every criterion absent.
EmptyData ==
  [platform |-> {}, role |-> {}, tags |-> {}, status |-> {},
   device |-> [one |-> FALSE, ds |-> {}]]

\* fres before get_job_filter is called.
NotCalled == [called |-> FALSE, raised |-> FALSE, code |-> NULL, names |-> {}, qs |-> {}]

\* The form data of a run started for one device: data["device"] is a Device.
SingleDeviceCriteria ==
  {[platform |-> {}, role |-> {}, tags |-> {}, status |-> {},
    device |-> [one |-> TRUE, ds |-> {d}]] : d \in Devices}

Init ==
  /\ software = {}
  /\ assocs = {}
  /\ job = [j \in Jobs |-> [pc |-> "idle", err |-> NULL, cancelled |-> FALSE, hosts |-> {}]]
  /\ task = [j \in Jobs |-> [d \in Devices |-> NoTask]]
  /\ fdata = EmptyData
  /\ fres = NotCalled

\* Init of the specification that applies get_job_filter to every form data.
InitFilter ==
  /\ software = {}
  /\ assocs = {}
  /\ job = [j \in Jobs |-> [pc |-> "idle", err |-> NULL, cancelled |-> FALSE, hosts |-> {}]]
  /\ task = [j \in Jobs |-> [d \in Devices |-> NoTask]]
  /\ fdata \in Criteria
  /\ fres = NotCalled

\* One call of get_job_filter(fdata).
ApplyFilter ==
  /\ ~fres.called
  /\ fres' = [called |-> TRUE] @@ get_job_filter(fdata)
  /\ UNCHANGED <<software, assocs, job, task, fdata>>

(***************************************************************************)
(* run(): init_nornir(data) evaluates get_job_filter(data) while building  *)
(* the inventory; an exception is logged and re-raised before nr.run is    *)
(* reached.  Otherwise nr.run queues one task per host of the inventory.   *)
(***************************************************************************)
\* The hosts nr.run works on, given the outcome of get_job_filter.
init_nornir(res) == IF res.raised THEN {} ELSE res.qs

run(j, data) ==
  /\ job[j].pc = "idle"
  /\ LET res == get_job_filter(data)
         hosts == init_nornir(res)
     IN /\ job' = [job EXCEPT ![j] = [pc |-> IF res.raised THEN "raised" ELSE "running",
                                      err |-> res.code, cancelled |-> FALSE,
                                      hosts |-> hosts]]
        /\ task' = [task EXCEPT ![j] = [d \in Devices |->
                       IF d \in hosts THEN [NoTask EXCEPT !.pc = "queued"] ELSE NoTask]]
  /\ UNCHANGED <<software, assocs, fdata, fres>>

\* The runner starts the task of host d in a worker thread.
Dispatch(j, d) ==
  /\ job[j].pc = "running"
  /\ task[j][d].pc = "queued"
  /\ task' = [task EXCEPT ![j][d].pc = "probe"]
  /\ UNCHANGED <<software, assocs, job, fdata, fres>>

\* get_os_version: the napalm sub-task returns the version, or fails; the
\* failure is logged and None is returned.  The failed sub-task result stays in
\* the host's results, which marks the host failed.
get_os_version(j, d, v) ==
  /\ task[j][d].pc = "probe"
  /\ task' = [task EXCEPT ![j][d] =
                 [@ EXCEPT !.pc = "reg_get", !.os_version = v,
                           !.failed = (v = NULL),
                           !.log = IF v = NULL THEN @ \cup {"error"} ELSE @]]
  /\ UNCHANGED <<software, assocs, job, fdata, fres>>


(***************************************************************************)
(* get_or_create_software_obj: SoftwareLCM.objects.get_or_create.  The     *)
(* manager first queries for the row; when there is none it inserts one,   *)
(* and when the insert violates a constraint of the table it queries       *)
(* again and re-raises if the row is still missing.  The two queries and   *)
(* the insert are separate statements.                                     *)
(***************************************************************************)
\* Mutant of SoftwareLookup: the lookup also matches on a primary key no row has,
\* as after objects.create was meant.
SoftwareLookup_NeverFinds(version, platform) ==
  {s \in software : s.version = version /\ s.device_platform = platform /\ s.id = NoId}

\* SoftwareLCM rows matching version=os_version, device_platform=platform.
SoftwareLookup(version, platform) ==
  {s \in software : s.version = version /\ s.device_platform = platform}

\* The constraints of the SoftwareLCM table an insert is checked against: the
\* version is a string (not null), and (version, device_platform) is unique.
InsertRejected(version, platform) ==
  \/ version = NULL
  \/ \E s \in software : s.version = version /\ s.device_platform = platform

\* Line 178: "Created software ..." is logged when the created flag is false.
SoftwareLog(created) == IF ~created THEN {"created_software"} ELSE {}

\* get_or_create, first statement: the lookup.
RegistryGet(j, d) ==
  /\ task[j][d].pc = "reg_get"
  /\ LET found == SoftwareLookup(task[j][d].os_version, Fleet[d].platform)
     IN IF found = {}
        THEN task' = [task EXCEPT ![j][d] = [@ EXCEPT !.pc = "reg_create", !.missed = TRUE]]
        ELSE \E s \in found :
               task' = [task EXCEPT ![j][d] =
                           [@ EXCEPT !.pc = "rel_intended", !.sw = s.id, !.created = FALSE,
                                     !.log = @ \cup SoftwareLog(FALSE)]]
  /\ UNCHANGED <<software, assocs, job, fdata, fres>>

\* get_or_create, after a miss: the insert, and on IntegrityError the second
\* lookup.  An exception that leaves get_or_create ends the task as failed.
RegistryCreate(j, d) ==
  /\ task[j][d].pc = "reg_create"
  /\ LET v == task[j][d].os_version
         p == Fleet[d].platform
         found == SoftwareLookup(v, p)
     IN IF ~InsertRejected(v, p)
        THEN /\ software' = software \cup {[id |-> <<j, d>>, version |-> v, device_platform |-> p]}
             /\ task' = [task EXCEPT ![j][d] =
                            [@ EXCEPT !.pc = "rel_intended", !.sw = <<j, d>>, !.created = TRUE,
                                      !.log = @ \cup SoftwareLog(TRUE)]]
        ELSE /\ software' = software
             /\ IF found = {}
                THEN task' = [task EXCEPT ![j][d] = [@ EXCEPT !.pc = "failed", !.failed = TRUE]]
                ELSE \E s \in found :
                       task' = [task EXCEPT ![j][d] =
                                   [@ EXCEPT !.pc = "rel_intended", !.sw = s.id,
                                             !.created = FALSE,
                                             !.log = @ \cup SoftwareLog(FALSE)]]
  /\ UNCHANGED <<assocs, job, fdata, fres>>


(***************************************************************************)
(* create_rel: two existence queries, a delete and an insert, each its own *)
(* statement; nothing holds them together.                                 *)
(***************************************************************************)
\* Mutant of IntendedRel: the filter compares the source with the device's id.
IntendedRel_SourceIsDevice(sw, d) == {a \in assocs : a.destination = d /\ a.source = <<0, d>>}

\* RelationshipAssociation rows with destination_id=device and source_id=software.
IntendedRel(sw, d) == {a \in assocs : a.destination = d /\ a.source = sw}

\* Mutant of ActualRel: the filter for another software also matches on the
\* intended source, so it never finds a stale row.
ActualRel_NoStale(d) == {a \in assocs : a.destination = d /\ a.source = NoId}

\* Mutant of ActualRel: the filter leaves out destination_id.
ActualRel_AnyDevice(d) == {a \in assocs : a.destination \in Devices}

\* RelationshipAssociation rows with destination_id=device.
ActualRel(d) == {a \in assocs : a.destination = d}

\* The association table holds one row per (relationship, source, destination):
\* inserting a second one raises IntegrityError.
DuplicateAssociation(sw, d) == \E a \in assocs : a.destination = d /\ a.source = sw

\* The associations of device d in the table (what a reader of the table sees).
AssocsOf(d) == {a \in assocs : a.destination = d}

\* The terminal state of a create_rel call that inserted: which branch it took.
InsertOutcome(deleted) == IF deleted THEN "replaced" ELSE "created"

\* Lines 187-188 and 206: is the intended association there already?
RelIntended(j, d) ==
  /\ task[j][d].pc = "rel_intended"
  /\ IF IntendedRel(task[j][d].sw, d) # {}
     THEN task' = [task EXCEPT ![j][d] =
                      [@ EXCEPT !.pc = "done", !.outcome = "unchanged",
                                !.log = @ \cup {"correct_rel"},
                                !.pre = AssocsOf(d), !.post = AssocsOf(d)]]
     ELSE task' = [task EXCEPT ![j][d] = [@ EXCEPT !.pc = "rel_actual", !.pre = AssocsOf(d)]]
  /\ UNCHANGED <<software, assocs, job, fdata, fres>>

\* Lines 190-191: is there an association to some other software?
RelActual(j, d) ==
  /\ task[j][d].pc = "rel_actual"
  /\ task' = [task EXCEPT ![j][d].pc = IF ActualRel(d) # {} THEN "rel_delete" ELSE "rel_create"]
  /\ UNCHANGED <<software, assocs, job, fdata, fres>>

\* Mutant of RelDelete: the delete is left out, the insert follows at once.
RelDelete_Skipped(j, d) ==
  /\ task[j][d].pc = "rel_delete"
  /\ task' = [task EXCEPT ![j][d] = [@ EXCEPT !.pc = "rel_create", !.deleted = TRUE]]
  /\ UNCHANGED <<software, assocs, job, fdata, fres>>

\* Line 192: actual_rel.delete() deletes the rows the filter matches now.
RelDelete(j, d) ==
  /\ task[j][d].pc = "rel_delete"
  /\ assocs' = assocs \ ActualRel(d)
  /\ task' = [task EXCEPT ![j][d] = [@ EXCEPT !.pc = "rel_create", !.deleted = TRUE]]
  /\ UNCHANGED <<software, job, fdata, fres>>

\* Lines 194-204: the insert.  The association table holds one row per
\* (relationship, source, destination); a duplicate insert raises.
RelCreate(j, d) ==
  /\ task[j][d].pc = "rel_create"
  /\ IF DuplicateAssociation(task[j][d].sw, d)
     THEN /\ assocs' = assocs
          /\ task' = [task EXCEPT ![j][d] = [@ EXCEPT !.pc = "failed", !.failed = TRUE]]
     ELSE LET row == [id |-> <<j, d>>, source |-> task[j][d].sw, destination |-> d]
          IN /\ assocs' = assocs \cup {row}
             /\ task' = [task EXCEPT ![j][d] =
                            [@ EXCEPT !.pc = "done",
                                      !.outcome = InsertOutcome(task[j][d].deleted),
                                      !.log = @ \cup {"created_rel"},
                                      !.post = AssocsOf(d) \cup {row}]]
  /\ UNCHANGED <<software, job, fdata, fres>>

\* create_software_to_device_rel: the pipeline of one host, one statement a step.
create_software_to_device_rel(j, d) ==
  \/ \E v \in Versions \cup {NULL} : get_os_version(j, d, v)
  \/ RegistryGet(j, d)
  \/ RegistryCreate(j, d)
  \/ RelIntended(j, d)
  \/ RelActual(j, d)
  \/ RelDelete(j, d)
  \/ RelCreate(j, d)

\* nr.run returns when every host's task has ended; its AggregatedResult is
\* dropped and run() returns None: the job ends without an exception.
RunReturn(j) ==
  /\ job[j].pc = "running"
  /\ \A d \in job[j].hosts : task[j][d].pc \in {"done", "failed"}
  /\ job' = [job EXCEPT ![j].pc = "done"]
  /\ UNCHANGED <<software, assocs, task, fdata, fres>>

\* What the caller of run() learns: TRUE when run() returned, FALSE when it raised.
overall_success(j) == job[j].pc = "done"

\* The hosts the AggregatedResult of nr.run marks failed.
failed_hosts(j) == {d \in job[j].hosts : task[j][d].failed}

\* The caller's timeout or cancellation signal.  No statement of the job reads it.
Cancel(j) ==
  /\ job[j].pc = "running"
  /\ ~job[j].cancelled
  /\ job' = [job EXCEPT ![j].cancelled = TRUE]
  /\ UNCHANGED <<software, assocs, task, fdata, fres>>

\* Job runs start in index order.
PrevStarted(j) == \A k \in Jobs : k < j => job[k].pc # "idle"

PrevEnded(j) == \A k \in Jobs : k < j => job[k].pc \in {"done", "raised"}

(***************************************************************************)
(* Specifications.                                                         *)
(*   Spec        single-device job runs that may overlap (several workers  *)
(*               run the job at once)                                      *)
(*   SpecSeq     job runs follow one another; the hosts of one run are     *)
(*               worked on concurrently by the runner's threads            *)
(*   SpecCancel  SpecSeq with the caller's cancellation signal             *)
(*   SpecFilter  get_job_filter applied to every form data                 *)
(***************************************************************************)
Next ==
  \/ \E j \in Jobs, data \in SingleDeviceCriteria : PrevStarted(j) /\ run(j, data)
  \/ \E j \in Jobs, d \in Devices : Dispatch(j, d)
  \/ \E j \in Jobs, d \in Devices : create_software_to_device_rel(j, d)
  \/ \E j \in Jobs : RunReturn(j)

Spec == Init /\ [][Next]_vars

NextSeq ==
  \/ \E j \in Jobs, data \in JobCriteria : PrevEnded(j) /\ run(j, data)
  \/ \E j \in Jobs, d \in Devices : Dispatch(j, d)
  \/ \E j \in Jobs, d \in Devices : create_software_to_device_rel(j, d)
  \/ \E j \in Jobs : RunReturn(j)

SpecSeq == Init /\ [][NextSeq]_vars

NextCancel ==
  \/ NextSeq
  \/ \E j \in Jobs : Cancel(j)

SpecCancel == Init /\ [][NextCancel]_vars

SpecFilter == InitFilter /\ [][ApplyFilter]_vars


(***************************************************************************)
(* Properties.                                                             *)
(***************************************************************************)
\* The job runs between j and k that worked on device d.
RunsBetween(j, k, d) == {m \in Jobs : j < m /\ m < k /\ task[m][d].pc # "none"}

\* C1: when create_rel for a device with no association is run twice in
\* succession with the same software object, the first call ends "created",
\* the second "unchanged", and the device has exactly one association after each.
Idempotence_C1 ==
  \A d \in Devices, j \in Jobs :
    (task[j][d].pc = "done" /\ task[j][d].pre = {}) =>
      /\ task[j][d].outcome = "created"
      /\ Cardinality(task[j][d].post) = 1
      /\ \A k \in Jobs :
           (/\ j < k
            /\ RunsBetween(j, k, d) = {}
            /\ task[k][d].pc = "done"
            /\ task[k][d].sw = task[j][d].sw) =>
             /\ task[k][d].outcome = "unchanged"
             /\ Cardinality(task[k][d].post) = 1

\* A device reconciled twice in succession to the same software object.
Idempotence_C1_Witness ==
  \E d \in Devices :
    /\ task[1][d].pc = "done" /\ task[1][d].pre = {}
    /\ task[2][d].pc = "done" /\ task[2][d].sw = task[1][d].sw
    /\ task[2][d].outcome = "unchanged"

\* C2: when the device has an association to software A and create_rel is run
\* with software B # A, the call ends "replaced" and afterwards the device has
\* exactly one association, which points to B.
Correction_C2 ==
  \A d \in Devices, j \in Jobs :
    (/\ task[j][d].pc = "done"
     /\ task[j][d].pre # {}
     /\ \A a \in task[j][d].pre : a.source # task[j][d].sw) =>
      /\ task[j][d].outcome = "replaced"
      /\ Cardinality(task[j][d].post) = 1
      /\ \A a \in task[j][d].post : a.source = task[j][d].sw

\* A device associated to A by the first run and reconciled to B by the second.
Correction_C2_Witness ==
  \E d \in Devices :
    /\ task[1][d].pc = "done" /\ task[1][d].outcome = "created"
    /\ task[2][d].pc = "done" /\ task[2][d].sw # task[1][d].sw
    /\ task[2][d].pre = task[1][d].post

\* C3 (as claimed): at most one association exists per device in every
\* reachable state, also while reconciliation attempts for one device overlap.
AtMostOneAssociation_C3 ==
  \A d \in Devices : Cardinality(AssocsOf(d)) <= 1


\* The SoftwareLCM rows of one (version, platform) pair, read from the table.
RowsOfPair(v, p) == {s \in software : s.version = v /\ s.device_platform = p}

\* C4: the pipelines of one run work on distinct devices concurrently; for
\* every (version, platform) pair the table holds at most one SoftwareLCM row,
\* and every pipeline that observed a version ends (never fails) with exactly
\* one association for its device, pointing at the single row of its pair.
RegistryUniqueness_C4 ==
  /\ \A s1, s2 \in software :
       (s1.version = s2.version /\ s1.device_platform = s2.device_platform) => s1 = s2
  /\ \A j \in Jobs, d \in Devices :
       (task[j][d].pc \in {"done", "failed"} /\ task[j][d].os_version # NULL) =>
         /\ task[j][d].pc = "done"
         /\ Cardinality(RowsOfPair(task[j][d].os_version, Fleet[d].platform)) = 1
         /\ Cardinality(task[j][d].post) = 1
         /\ \A a \in task[j][d].post :
              \E s \in RowsOfPair(task[j][d].os_version, Fleet[d].platform) : a.source = s.id

\* Two pipelines of one run whose first lookups of the same pair both missed,
\* both ended: one inserted the row, the other met the constraint.
RegistryUniqueness_C4_Witness ==
  \E j \in Jobs :
    /\ job[j].pc = "done"
    /\ task[j]["d1"].pc = "done" /\ task[j]["d2"].pc = "done"
    /\ task[j]["d1"].missed /\ task[j]["d2"].missed
    /\ task[j]["d1"].os_version = task[j]["d2"].os_version
    /\ task[j]["d1"].created # task[j]["d2"].created

\* The hosts of run j whose probe failed.
ProbeFailed(j) == {d \in job[j].hosts : task[j][d].os_version = NULL /\ "error" \in task[j][d].log}

\* C5 (as claimed): when a run has ended in which the probe of exactly one
\* host K failed, there is one outcome per host, exactly K is marked failed,
\* every other host has its association reconciled to the observed version,
\* and the overall success flag is false.
PartialFailure_C5 ==
  \A j \in Jobs :
    (job[j].pc \in {"done", "raised"} /\ Cardinality(ProbeFailed(j)) = 1) =>
      /\ \A d \in job[j].hosts : task[j][d].pc \in {"done", "failed"}
      /\ failed_hosts(j) = ProbeFailed(j)
      /\ \A d \in job[j].hosts \ ProbeFailed(j) :
           /\ Cardinality(task[j][d].post) = 1
           /\ \A a \in task[j][d].post :
                \E s \in RowsOfPair(task[j][d].os_version, Fleet[d].platform) : a.source = s.id
      /\ ~overall_success(j)

\* C7: a run whose selected devices fail a precondition raises before the
\* runner is started: no host of it is ever probed and it inserts or deletes
\* no row; every run that works on a host selected only usable devices.
PreconditionsFirst_C7 ==
  \A j \in Jobs :
    /\ job[j].pc = "raised" =>
         /\ \A d \in Devices : task[j][d] = NoTask
         /\ \A s \in software : s.id[1] # j
         /\ \A a \in assocs : a.id[1] # j
    /\ \A d \in Devices :
         task[j][d] # NoTask =>
           /\ d \in job[j].hosts
           /\ \A h \in job[j].hosts :
                Fleet[h].platform # NULL /\ Fleet[h].primary_ip4 # NULL

\* A run raised on a precondition while another run reconciled a device.
PreconditionsFirst_C7_Witness ==
  \E j, k \in Jobs :
    /\ job[j].pc = "raised" /\ job[j].err = "E3017"
    /\ job[k].pc = "done" /\ \E d \in job[k].hosts : task[k][d].pc = "done"

\* C10 (as claimed): once the cancellation signal of a run is triggered, no
\* queued host task of it is started, and the associations the run has
\* committed stay in the table while it ends.
Cancellation_C10 ==
  [][\A j \in Jobs :
       (job[j].cancelled /\ job[j].pc = "running") =>
         /\ \A d \in Devices : task[j][d].pc = "queued" => task'[j][d].pc = "queued"
         /\ \A a \in assocs : a.id[1] = j => a \in assocs']_vars


\* The selected devices of a get_job_filter call that lack a platform, and
\* those that lack a primary IP, read from the fleet.
NullPlatform(qs) == {d \in qs : Fleet[d].platform = NULL}

NullPrimaryIp(qs) == {d \in qs : Fleet[d].primary_ip4 = NULL}

\* The devices an error message names.
Named(names) == {d \in Devices : Fleet[d].name \in names}

\* C6: when the selected set holds a device without platform, get_job_filter
\* raises, and the devices its message names are exactly the selected devices
\* without platform.
NoPlatformOffenders_C6 ==
  (fres.called /\ NullPlatform(fres.qs) # {}) =>
    /\ fres.raised
    /\ fres.code = "E3017"
    /\ Named(fres.names) = NullPlatform(fres.qs)

\* A call whose selection holds two devices without platform and a usable one.
NoPlatformOffenders_C6_Witness ==
  /\ fres.called /\ fres.raised
  /\ Cardinality(NullPlatform(fres.qs)) = 2
  /\ fres.qs \ NullPlatform(fres.qs) # {}

\* C8 (as claimed): when validation fails, the message names every selected
\* device without platform and every selected device without primary IP.
BothChecksReported_C8 ==
  (fres.called /\ fres.raised) =>
    Named(fres.names) = NullPlatform(fres.qs) \cup NullPrimaryIp(fres.qs)

\* The devices that satisfy every supplied criterion of the form data, a value
\* of a criterion being satisfied by the device that has it.
HasValue(d, field, x) ==
  CASE field = "platform" -> Fleet[d].platform = x
    [] field = "role" -> Fleet[d].role = x
    [] field = "status" -> Fleet[d].status = x
    [] field = "tags" -> x \in Fleet[d].tags
    [] OTHER -> d = x

CritValues(data, field) == IF field = "device" THEN data.device.ds ELSE data[field]

CriterionNames == {"platform", "role", "status", "tags", "device"}

\* AND across criterion names, OR across the values of each.
SatisfiesAnyOf(d, data) ==
  \A f \in CriterionNames :
    CritValues(data, f) = {} \/ \E x \in CritValues(data, f) : HasValue(d, f, x)

\* AND across criterion names, OR across the values of each but tags, of which
\* a device must carry every one.
SatisfiesConjoinedTags(d, data) ==
  \A f \in CriterionNames :
    \/ CritValues(data, f) = {}
    \/ f # "tags" /\ \E x \in CritValues(data, f) : HasValue(d, f, x)
    \/ f = "tags" /\ \A x \in CritValues(data, f) : HasValue(d, f, x)

ProbeFailureStops_C11 ==
  /\ \A j \in Jobs, d \in Devices :
       (task[j][d].os_version = NULL /\ "error" \in task[j][d].log) =>
         /\ ~task[j][d].missed
         /\ task[j][d].sw = NoId
         /\ task[j][d].outcome = NULL /\ ~task[j][d].deleted
  /\ \A s \in software : s.version # NULL

\* The tasks for device d that entered create_rel.
Attempts(d) == {j \in Jobs : task[j][d].sw # NoId}

\* C12 (as claimed): once every reconciliation attempt for a device has
\* ended, also attempts that overlapped, the device has exactly one
\* association, and it points to the software object of one of the attempts.
OneAssociationAfterAll_C12 ==
  \A d \in Devices :
    (/\ Attempts(d) # {}
     /\ \A j \in Jobs : task[j][d].pc \in {"none", "done", "failed"}) =>
      /\ Cardinality(AssocsOf(d)) = 1
      /\ \A a \in AssocsOf(d) : \E j \in Attempts(d) : a.source = task[j][d].sw


\* The software objects device d is associated to.
SourcesOf(rows) == {a.source : a \in rows}

\* C13: in a replacing reconciliation of device d (association to A, desired
\* B # A, no other attempt for d running) the delete step empties the device's
\* associations, the insert step of the same attempt starts from none and
\* leaves exactly B, and from the first query to the end the device is
\* associated to A alone, to nothing, or to B alone.
DeleteThenCreate_C13 ==
  [][\A j \in Jobs, d \in Devices :
       LET t == task[j][d]
           A == SourcesOf(t.pre)
           replacing == t.pre # {} /\ t.sw \notin A
       IN /\ (t.pc = "rel_actual" /\ replacing) =>
               /\ SourcesOf(AssocsOf(d)) = A
               /\ (task'[j][d] # t => task'[j][d].pc = "rel_delete")
               /\ (AssocsOf(d))' = AssocsOf(d)
          /\ (t.pc = "rel_delete" /\ replacing) =>
               /\ SourcesOf(AssocsOf(d)) = A
               /\ (task'[j][d] # t => (AssocsOf(d))' = {} /\ task'[j][d].pc = "rel_create")
          /\ (t.pc = "rel_create" /\ replacing) =>
               /\ AssocsOf(d) = {}
               /\ (task'[j][d] # t =>
                     /\ task'[j][d].pc = "done"
                     /\ SourcesOf((AssocsOf(d))') = {t.sw})
               /\ (task'[j][d] = t => (AssocsOf(d))' = {})]_vars

\* The window of a replacing reconciliation: the stale association of the
\* device is deleted and the new one is not yet inserted.
DeleteThenCreate_C13_Witness ==
  \E j \in Jobs, d \in Devices :
    /\ task[j][d].pc = "rel_create" /\ task[j][d].deleted
    /\ Cardinality(task[j][d].pre) = 1
    /\ AssocsOf(d) = {}


\* The associations of device d whose source is software object sw.
RowsTo(sw, d) == {a \in assocs : a.destination = d /\ a.source = sw}

\* C14: when create_rel finds an association of the device whose source is
\* the desired software object, it ends "unchanged" at that query: the table
\* is left as it is (the row keeps its id), and the call has deleted and
\* inserted nothing.
NoMutationWhenCorrect_C14 ==
  [][\A j \in Jobs, d \in Devices :
       (/\ task[j][d].pc = "rel_intended"
        /\ RowsTo(task[j][d].sw, d) # {}
        /\ task'[j][d] # task[j][d]) =>
         /\ assocs' = assocs
         /\ task'[j][d].pc = "done"
         /\ task'[j][d].outcome = "unchanged"
         /\ ~task'[j][d].deleted
         /\ task'[j][d].post = AssocsOf(d)
         /\ \A a \in assocs' : a.id # <<j, d>>]_vars

\* A call that ended "unchanged" on the row an earlier run inserted.
NoMutationWhenCorrect_C14_Witness ==
  \E j \in Jobs, d \in Devices :
    /\ task[j][d].pc = "done" /\ task[j][d].outcome = "unchanged"
    /\ \E a \in AssocsOf(d) : a.source = task[j][d].sw /\ a.id[1] < j
    /\ Cardinality(AssocsOf(d)) = 1

\* C15: every change of the associations of a device is a step of a
\* create_rel call for that device: a pipeline never deletes, inserts or alters
\* an association of another device.
OtherDevicesUntouched_C15 ==
  [][\A d \in Devices :
       (AssocsOf(d))' # AssocsOf(d) =>
         \E j \in Jobs :
           /\ task[j][d].pc \in {"rel_delete", "rel_create"}
           /\ task'[j][d] # task[j][d]
           /\ \A e \in Devices \ {d} : (AssocsOf(e))' = AssocsOf(e)]_vars

\* A run replaced the association of d1 while d2 kept the association an
\* earlier run gave it.
OtherDevicesUntouched_C15_Witness ==
  \E j \in Jobs :
    /\ task[j]["d1"].pc = "done" /\ task[j]["d1"].outcome = "replaced"
    /\ AssocsOf("d2") # {}
    /\ \A a \in AssocsOf("d2") : a.id[1] < j

\* C16 (as claimed): "Created software <version> for <platform>" is logged by
\* exactly the get_or_create_software_obj calls that inserted the row.
CreatedLogged_C16 ==
  \A j \in Jobs, d \in Devices :
    task[j][d].sw # NoId =>
      ("created_software" \in task[j][d].log <=> task[j][d].created)

====
